---------------------------- MODULE Spec2Model ----------------------------
(***************************************************************************)
(* FileHandler API (src/auth_server.py): the /authenticator, /list-directory, *)
(* /download-file and /upload-file handlers over a POSIX filesystem.        *)
(*                                                                         *)
(* A string is a sequence of one-character strings, so that startswith,    *)
(* endswith, split and concatenation are computed as Python computes them. *)
(* A filesystem node is the sequence of the names on the way from the      *)
(* root, dirs is the set of directories, files maps each regular file to   *)
(* its bytes and modification time.                                        *)
(***************************************************************************)
EXTENDS Integers, Sequences, FiniteSets, TLC

VARIABLES
    USERNAME,   \* Secrets.USERNAME
    PASSWORD,   \* Secrets.PASSWORD
    dirs,       \* the directories of the filesystem (nodes)
    files,      \* the regular files: node -> [content, mtime]
    now,        \* the wall clock, in ticks
    req,        \* the list / download / authenticator request handled
    resp,       \* its response
    up,         \* the upload handlers: slot -> handler frame
    writes      \* the number of writes the upload handlers have made

vars == <<USERNAME, PASSWORD, dirs, files, now, req, resp, up, writes>>

-----------------------------------------------------------------------------
(* Bounds *)

MaxPathLen == 3

MaxNameLen == 2

MaxTime == 2

TicksPerSecond == 2

MaxUploads == 1

-----------------------------------------------------------------------------
(* Strings *)

sep == "/"

Chars == {"/", ".", "~", "a"}

NameChars == Chars \ {sep}

Strings(S, n) == UNION {[1..k -> S] : k \in 0..n}

PathStrings == Strings(Chars, MaxPathLen)

\* FileName values: one path segment each, "." and ".." included
NameStrings == Strings(NameChars, MaxNameLen) \ {<<>>}

startswith(s, c) == Len(s) > 0 /\ s[1] = c

endswith(s, t) ==
    /\ Len(t) <= Len(s)
    /\ SubSeq(s, Len(s) - Len(t) + 1, Len(s)) = t

\* str.split(sep): the segments between separators, empty ones kept
RECURSIVE split(_)
split(s) ==
    IF \A i \in 1..Len(s) : s[i] # sep
    THEN <<s>>
    ELSE LET i == CHOOSE j \in 1..Len(s) :
                      s[j] = sep /\ \A k \in 1..(j - 1) : s[k] # sep
         IN  <<SubSeq(s, 1, i - 1)>> \o split(SubSeq(s, i + 1, Len(s)))

Last(q) == q[Len(q)]

-----------------------------------------------------------------------------
(* The filesystem: path resolution as the os.path calls of the handlers do it *)

Root == <<>>

\* the working directory of the server process
Cwd == Root

Dot == <<".">>

DotDot == <<".", ".">>

Parent(node) == IF node = Root THEN Root ELSE SubSeq(node, 1, Len(node) - 1)

NoNode == [ok |-> FALSE, node |-> Root]

\* walk the components from an existing directory; the last one may be missing
RECURSIVE WalkFrom(_, _)
WalkFrom(cur, comps) ==
    IF comps = <<>> THEN [ok |-> TRUE, node |-> cur]
    ELSE IF cur \notin dirs THEN NoNode
    ELSE LET c == Head(comps)
             nxt == IF c = <<>> \/ c = Dot THEN cur
                    ELSE IF c = DotDot THEN Parent(cur)
                    ELSE cur \o <<c>>
         IN  WalkFrom(nxt, Tail(comps))

\* the node a path string names, if the walk succeeds ("" names nothing)
Walk(s) ==
    IF s = <<>> THEN NoNode
    ELSE WalkFrom(IF s[1] = sep THEN Root ELSE Cwd, split(s))

isfile(s) == Walk(s).ok /\ Walk(s).node \in DOMAIN files

isdir(s) == Walk(s).ok /\ Walk(s).node \in dirs

exists(s) == isfile(s) \/ isdir(s)

\* os.listdir of a node: the names of its immediate children
listdir(node) ==
    {Last(n) : n \in {m \in dirs \cup DOMAIN files :
                        Len(m) = Len(node) + 1 /\ Parent(m) = node}}

\* os.path.expanduser('~')
HomeStr == <<"/", "a">>


-----------------------------------------------------------------------------
(* Requests and responses *)

NoReq ==
    [op |-> "none", FilePath |-> <<>>, FileName |-> <<>>,
     username |-> <<>>, password |-> <<>>]

\* kind: "token" (a returned access token), "listing" (a returned mapping),
\* "null" (the handler returned nothing), "file" (a FileResponse), "error"
\* (a raised HTTPException), "exception" (an error no handler catches, which
\* the framework answers with 500)
NoResp ==
    [status |-> 0, kind |-> "none", token |-> <<>>, path |-> <<>>,
     keys |-> {}, files |-> {}, directories |-> {}, body |-> <<>>,
     filename |-> <<>>]

HTTPException(code) == [NoResp EXCEPT !.status = code, !.kind = "error"]

Unhandled == [NoResp EXCEPT !.status = 500, !.kind = "exception"]

\* The handlers are coroutines of one event loop: a handler runs from one
\* await to the next without another handler running in between.  An upload
\* at "written" is between its write and its check, with no await there.
Quiet == \A r \in DOMAIN up : up[r].pc # "written"

Idle == req.op = "none" /\ Quiet

-----------------------------------------------------------------------------
(* POST /authenticator *)

\* a check that accepts a pair when either field matches
authenticate_either(username, password) ==
    IF username = USERNAME \/ password = PASSWORD
    THEN [NoResp EXCEPT !.status = 200, !.kind = "token",
                        !.token = username \o password]
    ELSE HTTPException(401)

authenticate(username, password) ==
    IF username = USERNAME /\ password = PASSWORD
    THEN [NoResp EXCEPT !.status = 200, !.kind = "token",
                        !.token = username \o password]
    ELSE HTTPException(401)

authenticator(username, password) ==
    /\ Idle
    /\ req' = [NoReq EXCEPT !.op = "authenticator", !.username = username,
                            !.password = password]
    /\ resp' = authenticate(username, password)
    /\ UNCHANGED <<USERNAME, PASSWORD, dirs, files, now, up, writes>>

-----------------------------------------------------------------------------
(* GET /list-directory *)

\* a Python dict whose values are lists of names: its keys and their values
dict(keys, fs, ds) == [keys |-> keys, files |-> fs, directories |-> ds]

\* bool(d) of a dict: false only for the dict without keys
truthy(d) == d.keys # {}

\* dict(a, **b)
merge(a, b) ==
    dict(a.keys \cup b.keys,
         IF "files" \in b.keys THEN b.files ELSE a.files,
         IF "directories" \in b.keys THEN b.directories ELSE a.directories)

hidden(entry) == startswith(entry, ".")

file_listing(file_path, dir_list) ==
    dict({"files"},
         {entry \in dir_list :
             isfile(file_path \o <<sep>> \o entry) /\ ~hidden(entry)},
         {})

\* a directory listing that forgets the dot-name filter
dir_listing_unfiltered(file_path, dir_list) ==
    dict({"directories"},
         {},
         {entry \in dir_list : isdir(file_path \o <<sep>> \o entry)})

dir_listing(file_path, dir_list) ==
    dict({"directories"},
         {},
         {entry \in dir_list :
             isdir(file_path \o <<sep>> \o entry) /\ ~hidden(entry)})

Returned(file_path, d) ==
    [NoResp EXCEPT !.status = 200, !.kind = "listing", !.path = file_path,
                   !.keys = d.keys, !.files = d.files,
                   !.directories = d.directories]

listing(file_path) ==
    LET dir_list == listdir(Walk(file_path).node)
        fl == file_listing(file_path, dir_list)
        dl == dir_listing(file_path, dir_list)
    IN  IF truthy(fl) /\ truthy(dl) THEN Returned(file_path, merge(dl, fl))
        ELSE IF truthy(fl) THEN Returned(file_path, fl)
        ELSE IF truthy(dl) THEN Returned(file_path, dl)
        ELSE [NoResp EXCEPT !.status = 200, !.kind = "null"]

list(FilePath) ==
    IF isfile(FilePath) THEN HTTPException(400)
    ELSE IF FilePath = <<"~">>
         THEN IF isdir(HomeStr) THEN listing(HomeStr) ELSE Unhandled
    ELSE IF exists(FilePath) THEN listing(FilePath)
    ELSE HTTPException(404)

list_directory(FilePath) ==
    /\ Idle
    /\ req' = [NoReq EXCEPT !.op = "list_directory", !.FilePath = FilePath]
    /\ resp' = list(FilePath)
    /\ UNCHANGED <<USERNAME, PASSWORD, dirs, files, now, up, writes>>

-----------------------------------------------------------------------------
(* GET /download-file *)

FileResponse(file_path, file_name) ==
    [NoResp EXCEPT !.status = 200, !.kind = "file", !.path = file_path,
                   !.body = files[Walk(file_path).node].content,
                   !.filename = file_name]

\* a download without the dot-name denial
download_any(FilePath, FileName) ==
    LET file_name == FileName
        file_path == FilePath \o <<sep>> \o file_name
    IN  IF isfile(file_path)
        THEN FileResponse(file_path, file_name)
        ELSE HTTPException(404)

\* a download that joins the directory and the name without a separator
download_unjoined(FilePath, FileName) ==
    LET file_name == FileName
        file_path == FilePath \o file_name
    IN  IF isfile(file_path)
        THEN IF startswith(file_name, ".")
             THEN HTTPException(403)
             ELSE FileResponse(file_path, file_name)
        ELSE HTTPException(404)

download(FilePath, FileName) ==
    LET file_name == FileName
        file_path == FilePath \o <<sep>> \o file_name
    IN  IF isfile(file_path)
        THEN IF startswith(file_name, ".")
             THEN HTTPException(403)
             ELSE FileResponse(file_path, file_name)
        ELSE HTTPException(404)

download_file(FilePath, FileName) ==
    /\ Idle
    /\ req' = [NoReq EXCEPT !.op = "download_file", !.FilePath = FilePath,
                            !.FileName = FileName]
    /\ resp' = download(FilePath, FileName)
    /\ UNCHANGED <<USERNAME, PASSWORD, dirs, files, now, up, writes>>

-----------------------------------------------------------------------------
(* POST /upload-file *)

\* pc: "idle", "resolved" (at await data.read()), "written" (the file is
\* written, the check not yet made), "done" (the response is out).
\* wseq: the serial of the handler's write, 0 before it.
NoFrame ==
    [pc |-> "idle", FilePath |-> <<>>, FileName |-> <<>>, data_filename |-> <<>>,
     content |-> <<>>, filename |-> <<>>, file_name |-> <<>>,
     status |-> 0, kind |-> "none", wseq |-> 0]

\* upload.FileName, or the name of the uploaded stream when it is empty
target_name(FileName, data_filename) ==
    IF FileName = <<>> THEN data_filename ELSE FileName

destination(FilePath, FileName, data_filename) ==
    LET filename == target_name(FileName, data_filename)
        filepath == FilePath
    IN  IF filepath # <<>> /\ endswith(filepath, filename) THEN filepath
        ELSE IF endswith(filepath, <<sep>>) THEN filepath \o filename
        ELSE filepath \o <<sep>> \o filename

\* int(datetime.now().timestamp()), int(stat(...).st_mtime)
int(t) == t \div TicksPerSecond

\* open(filename, 'wb') succeeds on a regular file, or on a missing name in
\* an existing directory
can_open(filename) == Walk(filename).ok /\ Walk(filename).node \notin dirs

\* a write in append mode ('ab'): the bytes follow what the file held
write_append(filename, content) ==
    LET node == Walk(filename).node
    IN  [n \in DOMAIN files \cup {node} |->
            IF n = node
            THEN [content |-> (IF n \in DOMAIN files
                               THEN files[n].content ELSE <<>>) \o content,
                  mtime |-> now]
            ELSE files[n]]

\* a write that leaves an existing file as it is
write_if_missing(filename, content) ==
    LET node == Walk(filename).node
    IN  [n \in DOMAIN files \cup {node} |->
            IF n = node /\ n \notin DOMAIN files
            THEN [content |-> content, mtime |-> now]
            ELSE files[n]]

\* open(filename, 'wb'); file.write(content): the file holds content alone
write(filename, content) ==
    LET node == Walk(filename).node
    IN  [n \in DOMAIN files \cup {node} |->
            IF n = node
            THEN [content |-> content, mtime |-> now]
            ELSE files[n]]

\* a check that compares the times without truncating them to seconds
verify_untruncated(filename) ==
    IF isfile(filename)
    THEN IF now - files[Walk(filename).node].mtime = 0
         THEN 200
         ELSE 500
    ELSE 500

\* the outcome of the check after the write
verify(filename) ==
    IF isfile(filename)
    THEN IF int(now) - int(files[Walk(filename).node].mtime) = 0
         THEN 200
         ELSE 500
    ELSE 500

InFlight == Cardinality({r \in DOMAIN up : up[r].pc = "resolved"})

\* lines 178-187: the destination is resolved, then the handler awaits the body
upload_file_begin(r, FilePath, FileName, data_filename, content) ==
    /\ Quiet
    /\ up[r].pc \in {"idle", "done"}
    /\ up' = [up EXCEPT ![r] =
                [NoFrame EXCEPT !.pc = "resolved", !.FilePath = FilePath,
                    !.FileName = FileName, !.data_filename = data_filename,
                    !.content = content,
                    !.filename = destination(FilePath, FileName, data_filename)]]
    /\ UNCHANGED <<USERNAME, PASSWORD, dirs, files, now, req, resp, writes>>

\* lines 188-190: the body is read and written; an open() that fails raises
upload_file_write(r) ==
    /\ Quiet
    /\ up[r].pc = "resolved"
    /\ IF can_open(up[r].filename)
       THEN /\ files' = write(up[r].filename, up[r].content)
            /\ writes' = writes + 1
            /\ up' = [up EXCEPT ![r].pc = "written", ![r].wseq = writes + 1]
       ELSE /\ up' = [up EXCEPT ![r].pc = "done", ![r].status = 500,
                                ![r].kind = "exception"]
            /\ UNCHANGED <<files, writes>>
    /\ UNCHANGED <<USERNAME, PASSWORD, dirs, now, req, resp>>

\* lines 192-202: the check of the write, and the response
upload_file_verify(r) ==
    /\ up[r].pc = "written"
    /\ up' = [up EXCEPT ![r].pc = "done",
                        ![r].file_name = Last(split(up[r].filename)),
                        ![r].status = verify(up[r].filename),
                        ![r].kind = "error"]
    /\ UNCHANGED <<USERNAME, PASSWORD, dirs, files, now, req, resp, writes>>

\* time passes, also between a write and its check
Tick ==
    /\ now < MaxTime
    /\ now' = now + 1
    /\ UNCHANGED <<USERNAME, PASSWORD, dirs, files, req, resp, up, writes>>

-----------------------------------------------------------------------------
(* Initial states *)

A == <<"a">>

DotA == <<".", "a">>

Tilde == <<"~">>

UserNames == {A, <<"a", "a">>}

Passwords == {<<"~">>, <<"a", "~">>}

\* directories and files the server may find when it starts
DirU == {<<A>>, <<DotA>>, <<A, A>>}

FileU == {<<Tilde>>, <<DotA>>, <<A, DotA>>, <<A, A>>}

\* a file found at startup
OldFile == [content |-> <<0>>, mtime |-> 0]

InitFS ==
    /\ \E D \in SUBSET DirU :
          /\ \A d \in D : Parent(d) \in D \cup {Root}
          /\ dirs = D \cup {Root}
    /\ \E F \in SUBSET FileU :
          /\ \A f \in F : f \notin dirs /\ Parent(f) \in dirs
          /\ files = [f \in F |-> OldFile]

NoUploads == <<NoFrame>>

InitCommon ==
    /\ USERNAME = A
    /\ PASSWORD = Tilde
    /\ now = 0
    /\ req = NoReq
    /\ resp = NoResp
    /\ up = NoUploads
    /\ writes = 0

\* the credential check: any configured pair, any submitted pair
InitAuth ==
    /\ USERNAME \in UserNames
    /\ PASSWORD \in Passwords
    /\ dirs = {Root}
    /\ files = <<>>
    /\ now = 0
    /\ req = NoReq
    /\ resp = NoResp
    /\ up = NoUploads
    /\ writes = 0

NextAuth ==
    /\ Idle
    /\ \E u \in Strings({"a", "~"}, 2), p \in Strings({"a", "~"}, 2) :
          authenticator(u, p)

SpecAuth == InitAuth /\ [][NextAuth]_vars

\* the read-only handlers over every filesystem of InitFS
InitRead == InitCommon /\ InitFS

NextRead ==
    \/ /\ Idle
       /\ \E fp \in PathStrings : list_directory(fp)
    \/ /\ Idle
       /\ \E fp \in PathStrings, fn \in NameStrings : download_file(fp, fn)

SpecRead == InitRead /\ [][NextRead]_vars

\* the destination of an upload, for every path and every name
InitPath ==
    /\ InitCommon
    /\ dirs = {Root}
    /\ files = <<>>

NextPath ==
    /\ up[1].pc = "idle"
    /\ \E fp \in PathStrings, fn \in NameStrings \cup {<<>>} :
          upload_file_begin(1, fp, fn, A, <<1>>)

SpecPath == InitPath /\ [][NextPath]_vars

\* uploads and downloads, one upload at a time
UploadPaths == {<<>>, <<"/", "a">>, <<"/", "a", "/">>, <<"/", ".", "a">>}

UploadNames == {<<>>, Tilde}

Contents == {<<1>>, <<2>>}

Init == InitCommon /\ InitFS

Next ==
    \/ Tick
    \/ /\ writes + InFlight < MaxUploads
       /\ \E fp \in UploadPaths, fn \in UploadNames, c \in Contents :
             upload_file_begin(1, fp, fn, A, c)
    \/ upload_file_write(1)
    \/ upload_file_verify(1)
    \/ /\ Idle
       /\ \E fp \in UploadPaths, fn \in {A, Tilde, DotA} :
             download_file(fp, fn)

Spec == Init /\ [][Next]_vars

\* two uploads to one directory, started in any order, one request per slot
RacePaths == {<<"/", "a">>, <<"/", "a", "/">>}

InitRace ==
    /\ USERNAME = A
    /\ PASSWORD = Tilde
    /\ now = 0
    /\ req = NoReq
    /\ resp = NoResp
    /\ up = <<NoFrame, NoFrame>>
    /\ writes = 0
    /\ InitFS

NextRace ==
    \/ Tick
    \/ \E r \in {1, 2}, fp \in RacePaths, c \in Contents :
           /\ up[r].pc = "idle"
           /\ upload_file_begin(r, fp, Tilde, A, c)
    \/ \E r \in {1, 2} : upload_file_write(r)
    \/ \E r \in {1, 2} : upload_file_verify(r)

SpecRace == InitRace /\ [][NextRace]_vars

-----------------------------------------------------------------------------
(* The claims *)

Children(node, S) == {n \in S : Len(n) = Len(node) + 1 /\ Parent(n) = node}

Node(s) == Walk(s).node

RegularFile(s) == Walk(s).ok /\ Node(s) \in DOMAIN files

Joined(d, n) == d \o <<sep>> \o n

HiddenDownload == req.op = "download_file" /\ startswith(req.FileName, ".")

\* C1, as stated: every download of a name that starts with '.' is answered
\* 403, whether or not the file exists.
C1_HiddenAlwaysForbidden == HiddenDownload => resp.status = 403

\* C1, amended: a download of a name that starts with '.' never streams a
\* file; it is answered 403 when directory/FileName is an existing regular
\* file and 404 when it is not.
C1_HiddenNeverStreamed ==
    HiddenDownload =>
        /\ resp.kind = "error"
        /\ resp.status =
              IF RegularFile(Joined(req.FilePath, req.FileName)) THEN 403 ELSE 404

C1_Witness ==
    /\ HiddenDownload
    /\ RegularFile(Joined(req.FilePath, req.FileName))
    /\ resp.status = 403

\* C2: a download of (d, n), n not hidden, made when the last write was the
\* write of a finished upload of n whose destination is d/n, streams exactly
\* the uploaded bytes; and a download of a non-hidden name that is no
\* existing regular file is answered 404.
C2_RoundTrip ==
    [][(req.op = "none" /\ req'.op = "download_file"
            /\ ~startswith(req'.FileName, "."))
        => LET d == req'.FilePath
               n == req'.FileName
               u == up[1]
           IN  /\ ( /\ u.pc = "done"
                    /\ u.wseq > 0
                    /\ u.wseq = writes
                    /\ n = target_name(u.FileName, u.data_filename)
                    /\ d = u.FilePath
                    /\ Walk(Joined(d, n)).ok
                    /\ Node(u.filename) = Node(Joined(d, n)) )
                  => (resp'.kind = "file" /\ resp'.body = u.content)
               /\ ~RegularFile(Joined(d, n))
                  => (resp'.kind = "error" /\ resp'.status = 404)]_vars

C2_Witness ==
    /\ req.op = "download_file"
    /\ up[1].pc = "done"
    /\ up[1].wseq > 0
    /\ req.FilePath = up[1].FilePath
    /\ req.FileName = target_name(up[1].FileName, up[1].data_filename)
    /\ resp.kind = "file"
    /\ resp.body = up[1].content
    /\ resp.body # OldFile.content

\* C3: a returned listing names no entry that starts with '.', names every
\* other child that is a regular file under files and every other child that
\* is a directory under directories.
C3_ListingVisible ==
    resp.kind = "listing" =>
        LET node == Node(resp.path)
        IN  /\ \A e \in resp.files \cup resp.directories : ~startswith(e, ".")
            /\ \A n \in Children(node, DOMAIN files) :
                  ~startswith(Last(n), ".")
                      => "files" \in resp.keys /\ Last(n) \in resp.files
            /\ \A n \in Children(node, dirs) :
                  ~startswith(Last(n), ".")
                      => /\ "directories" \in resp.keys
                         /\ Last(n) \in resp.directories

C3_Witness ==
    /\ resp.kind = "listing"
    /\ \E n \in Children(Node(resp.path), dirs \cup DOMAIN files) :
          startswith(Last(n), ".")
    /\ resp.files # {}
    /\ resp.directories # {}

\* C4, as stated: the destination of an upload is FilePath when FilePath ends
\* with the target filename, else FilePath and the filename joined by one
\* separator; and the filename is the last segment of the destination.
C4_NameIsLastSegment ==
    \A r \in DOMAIN up :
        up[r].pc = "resolved" =>
            LET name == target_name(up[r].FileName, up[r].data_filename)
                fp == up[r].FilePath
                dest == up[r].filename
            IN  /\ dest = IF fp # <<>> /\ endswith(fp, name) THEN fp
                          ELSE IF fp # <<>> /\ fp[Len(fp)] = sep
                               THEN fp \o name
                               ELSE fp \o <<sep>> \o name
                /\ Last(split(dest)) = name

\* C5: the token username + password is returned exactly when both submitted
\* fields equal the configured pair; every other pair is answered 401 with no
\* token.
C5_TokenIffCredential ==
    req.op = "authenticator" =>
        IF req.username = USERNAME /\ req.password = PASSWORD
        THEN /\ resp.kind = "token"
             /\ resp.token = req.username \o req.password
        ELSE /\ resp.kind = "error"
             /\ resp.status = 401
             /\ resp.token = <<>>

C5_Witness ==
    /\ req.op = "authenticator"
    /\ resp.kind = "token"
    /\ resp.token = USERNAME \o PASSWORD

\* the resolver rules of the listing: home expansion, then File, then
\* Directory, else NotFound
Resolve(rawPath) ==
    LET p == IF rawPath = <<"~">> THEN HomeStr ELSE rawPath
    IN  IF RegularFile(p) THEN "File"
        ELSE IF Walk(p).ok /\ Node(p) \in dirs THEN "Directory"
        ELSE "NotFound"

\* C6, as stated: a listing request for a path that resolves to File is
\* answered 400, for a path that resolves to NotFound 404, and a listing is
\* returned only for a path that resolves to Directory.
C6_ListingByResolver ==
    req.op = "list_directory" =>
        /\ Resolve(req.FilePath) = "File"
              => (resp.kind = "error" /\ resp.status = 400)
        /\ Resolve(req.FilePath) = "NotFound"
              => (resp.kind = "error" /\ resp.status = 404)
        /\ resp.kind = "listing" => Resolve(req.FilePath) = "Directory"

\* C7: the check after a write answers 200 exactly when the destination is a
\* regular file and the clock and the file's modification time are in the
\* same second; every other check answers 500.
C7_VerifiedBySecond ==
    [][\A r \in DOMAIN up :
          (up[r].pc = "written" /\ up'[r].pc = "done") =>
              LET node == Node(up[r].filename)
              IN  /\ up'[r].kind = "error"
                  /\ up'[r].status \in {200, 500}
                  /\ (up'[r].status = 200) <=>
                        ( /\ node \in DOMAIN files
                          /\ (now \div TicksPerSecond)
                                - (files[node].mtime \div TicksPerSecond) = 0 )]_vars

C7_Witness ==
    /\ up[1].pc = "done"
    /\ up[1].wseq > 0
    /\ up[1].status = 200
    /\ now > files[Node(up[1].filename)].mtime

\* C8, as stated: a listing holds the key files exactly when there is a
\* visible file and the key directories exactly when there is a visible
\* directory; with neither, the result is empty.
C8_ShapeByContent ==
    (req.op = "list_directory" /\ resp.kind \in {"listing", "null"}) =>
        LET node == Node(IF req.FilePath = <<"~">> THEN HomeStr ELSE req.FilePath)
            visible(S) == {n \in Children(node, S) : ~startswith(Last(n), ".")}
        IN  /\ ("files" \in resp.keys) <=> (visible(DOMAIN files) # {})
            /\ ("directories" \in resp.keys) <=> (visible(dirs) # {})

\* C9: when two uploads to one destination have both finished, the file holds
\* the bytes of the one that wrote last, whole and alone, and both were
\* answered by their own check: at each check the file is the handler's own
\* write.
C9_LastWriterWins ==
    /\ [](( /\ up[1].pc = "done" /\ up[2].pc = "done"
            /\ up[1].wseq > 0 /\ up[2].wseq > 0
            /\ Node(up[1].filename) = Node(up[2].filename) )
          => LET last == IF up[1].wseq > up[2].wseq THEN 1 ELSE 2
             IN  /\ files[Node(up[last].filename)].content = up[last].content
                 /\ \A r \in {1, 2} :
                       up[r].kind = "error" /\ up[r].status \in {200, 500})
    /\ [][\A r \in DOMAIN up :
            (up[r].pc = "written" /\ up'[r].pc = "done") =>
                /\ up[r].wseq = writes
                /\ files[Node(up[r].filename)].content = up[r].content]_vars

C9_Witness ==
    /\ up[1].pc = "done" /\ up[2].pc = "done"
    /\ up[1].wseq = 2 /\ up[2].wseq = 1
    /\ Node(up[1].filename) = Node(up[2].filename)
    /\ up[1].content # up[2].content
    /\ files[Node(up[1].filename)].content = up[1].content

=============================================================================
